---- MODULE Spec2Model ----
(***************************************************************************)
(* Stack-overflow guard and signal handling of the Rust standard library   *)
(* on Unix: library/std/src/sys/pal/unix/stack_overflow.rs.                *)
(*                                                                         *)
(* The model is a state machine over the process-wide statics (PAGE_SIZE,  *)
(* MAIN_ALTSTACK, NEED_ALTSTACK), the thread-local GUARD, and the kernel   *)
(* state the module manipulates: the dispositions of SIGSEGV and SIGBUS,   *)
(* each thread's alternate signal stack registration and the memory map.   *)
(* Every thread has a program counter; init and make_handler advance one   *)
(* system call or one store at a time, so that faults and other threads    *)
(* interleave with them.                                                   *)
(***************************************************************************)
EXTENDS Integers, FiniteSets, Sequences, TLC

(***************************************************************************)
(* Bounds and scales of the model.                                         *)
(***************************************************************************)
\* Width of usize in the model: addresses are 0 .. 2^AddrBits - 1.
AddrBits == 5
AddrSpace == 2 ^ AddrBits
\* How many times init may be called in one process.
MaxInit == 2
\* Fault addresses range over 0 .. MaxFaultAddr.
MaxFaultAddr == 7
\* Page sizes range over 1 .. MaxPage where a function is applied on its own.
MaxPage == 4

\* os::page_size(), the value init stores into PAGE_SIZE.
PageSz == 2
\* libc::SIGSTKSZ, the static minimum signal-stack size.
SIGSTKSZ == 2
\* getauxval(AT_MINSIGSTKSZ): 0 when the entry is absent, or a dynamic size.
AuxvVals == {0, 2 * SIGSTKSZ}
\* First address of the area in which the kernel places anonymous mappings.
HeapBase == 5 * PageSz
\* Room of one anonymous mapping: the largest alt stack plus its guard page.
SlotLen == 2 * SIGSTKSZ + PageSz

\* The main thread and the slot of a spawned thread; when a spawned thread
\* has ended, the next one takes its slot.
Main == 0
Spawned == {1}
Threads == {Main} \cup Spawned

SIGSEGV == "SIGSEGV"
SIGBUS == "SIGBUS"
Signals == {SIGSEGV, SIGBUS}

\* Dispositions: the platform default, the handler of this module, or a
\* handler (or SIG_IGN) that other code installed before init.
SIG_DFL == "SIG_DFL"
OURS == "signal_handler"
FOREIGN == "foreign"

\* Null pointer.
NULL == 0

\* Compilation targets (cfg values) the model covers.
Targets == {"linux_gnu", "linux_musl", "freebsd", "openbsd", "macos"}

\* usize arithmetic wraps (std is compiled without overflow checks).
UAdd(a, b) == (a + b) % AddrSpace
USub(a, b) == (a - b + AddrSpace) % AddrSpace

\* Option<T>: None is the empty sequence, Some(x) the sequence of x.
None == << >>
Some(x) == << x >>

SS_DISABLE == "SS_DISABLE"
SS_ENABLED == "enabled"
\* What the kernel keeps for a thread without an alternate signal stack.
NoAltStack == [ss_sp |-> NULL, ss_size |-> 0, ss_flags |-> SS_DISABLE]
\* An alternate signal stack that code outside this module registered.
ForeignSp == AddrSpace - PageSz
ForeignAltStack == [ss_sp |-> ForeignSp, ss_size |-> SIGSTKSZ, ss_flags |-> SS_ENABLED]

\* Memory map: a function from the addresses this module has mapped to their
\* protection and to the mmap call they come from ("by": the thread whose
\* get_stack mapped them, or GuardTag for the page install_main_guard maps).
GuardTag == 0 - 1
NoTag == 0 - 2
Unmapped == [prot |-> "unmapped", by |-> NoTag]
Addrs == 0 .. (AddrSpace - 1)
MmapBases == {HeapBase + i * SlotLen : i \in 0 .. Cardinality(Spawned)}

\* What the thread-attribute queries may report.
MainStackStarts == {PageSz, PageSz + 1}
SpawnStackStarts == {2 * PageSz + 1}
GuardSizes == {0, PageSz}
\* security.bsd.stack_guard_page as sysctlbyname may report it.
GuardPages == {1, 2}

(***************************************************************************)
(* Pure functions of the module.                                           *)
(***************************************************************************)
Max(a, b) == IF a >= b THEN a ELSE b

\* A sigstack_size that does not ask the auxiliary vector.
sigstack_size_static(tgt, aux) == SIGSTKSZ

\* sigstack_size(): the larger of SIGSTKSZ and the auxiliary-vector entry
\* on Linux, SIGSTKSZ elsewhere.
sigstack_size(tgt, aux) ==
    IF tgt \in {"linux_gnu", "linux_musl"} THEN Max(SIGSTKSZ, aux) ELSE SIGSTKSZ

\* A get_stack_start_aligned that rounds down to the page boundary.
get_stack_start_truncated(page_size, start) ==
    IF start = None THEN None
    ELSE Some(USub(start[1], start[1] % page_size))

\* get_stack_start_aligned(): the reported stack start, rounded up to a
\* page boundary.  start is an Option; the result is an Option.
get_stack_start_aligned(page_size, start) ==
    IF start = None THEN None
    ELSE LET stackaddr == start[1]
             remainder == stackaddr % page_size
         IN  Some(IF remainder = 0 THEN stackaddr
                  ELSE USub(UAdd(stackaddr, page_size), remainder))

\* An install_main_guard that maps and protects the page below the stack
\* on every target, as the manual-mapping variant does for its own page.
install_main_guard_mapping(tgt, page_size, start, pages) ==
    LET aligned == get_stack_start_aligned(page_size, start)
    IN  IF aligned = None THEN [guard |-> None, maps |-> None]
        ELSE [guard |-> Some(<<USub(aligned[1], page_size), aligned[1]>>),
              maps |-> Some(USub(aligned[1], page_size))]

\* install_main_guard(): the guard range of the main thread (an Option of
\* <<start, end>>) and the page it maps with MAP_FIXED, if any.
install_main_guard(tgt, page_size, start, pages) ==
    LET aligned == get_stack_start_aligned(page_size, start)
    IN  IF tgt = "linux_musl" THEN [guard |-> None, maps |-> None]
        ELSE IF aligned = None THEN [guard |-> None, maps |-> None]
        ELSE LET stackaddr == aligned[1] IN
             IF tgt \in {"linux_gnu", "openbsd", "netbsd"}
             THEN [guard |-> Some(<<USub(stackaddr, page_size), stackaddr>>),
                   maps |-> None]
             ELSE IF tgt = "freebsd"
             THEN [guard |-> Some(<<stackaddr, UAdd(stackaddr, pages * page_size)>>),
                   maps |-> None]
             ELSE [guard |-> Some(<<stackaddr, UAdd(stackaddr, page_size)>>),
                   maps |-> Some(stackaddr)]

\* The outcome of a call that panics.
Panic == << "panic" >>

\* A current_guard that takes the guard of glibc to end at the reported
\* stack address, as on the targets whose stack excludes the guard.
current_guard_below(tgt, page_size, attr) ==
    IF tgt \in {"macos", "openbsd", "solaris"}
    THEN Some(<<USub(attr[1].stackaddr, page_size), attr[1].stackaddr>>)
    ELSE IF attr = None THEN None
    ELSE IF attr[1].guardsize = 0 /\ tgt # "linux_musl" THEN Panic
    ELSE LET guardsize == IF attr[1].guardsize = 0 THEN page_size
                          ELSE attr[1].guardsize
         IN  Some(<<USub(attr[1].stackaddr, guardsize), attr[1].stackaddr>>)

\* A current_guard that uses a reported guard size of zero as it is.
current_guard_zero_size(tgt, page_size, attr) ==
    IF tgt \in {"macos", "openbsd", "solaris"}
    THEN Some(<<USub(attr[1].stackaddr, page_size), attr[1].stackaddr>>)
    ELSE IF attr = None THEN None
    ELSE LET guardsize == attr[1].guardsize
             stackaddr == attr[1].stackaddr
         IN  IF tgt \in {"freebsd", "netbsd", "hurd", "linux_musl"}
             THEN Some(<<USub(stackaddr, guardsize), stackaddr>>)
             ELSE IF tgt \in {"linux_gnu", "linux_uclibc"}
             THEN Some(<<USub(stackaddr, guardsize), UAdd(stackaddr, guardsize)>>)
             ELSE Some(<<stackaddr, UAdd(stackaddr, guardsize)>>)

\* A current_guard that takes the guard to be the page below the page the
\* stack address lies in.
current_guard_of_page(tgt, page_size, attr) ==
    LET base == USub(attr[1].stackaddr, attr[1].stackaddr % page_size)
    IN  Some(<<USub(base, page_size), base>>)

\* current_guard(): the guard range of a spawned thread.  attr is None when
\* the thread-attribute query fails, else the reported stack address and
\* guard size (an Option of a record).  The result is Panic, or an Option of
\* <<start, end>>.
current_guard(tgt, page_size, attr) ==
    IF tgt \in {"macos", "openbsd", "solaris"}
    THEN Some(<<USub(attr[1].stackaddr, page_size), attr[1].stackaddr>>)
    ELSE IF attr = None THEN None
    ELSE IF attr[1].guardsize = 0 /\ tgt # "linux_musl" THEN Panic
    ELSE LET guardsize == IF attr[1].guardsize = 0 THEN page_size
                          ELSE attr[1].guardsize
             stackaddr == attr[1].stackaddr
         IN  IF tgt \in {"freebsd", "netbsd", "hurd", "linux_musl"}
             THEN Some(<<USub(stackaddr, guardsize), stackaddr>>)
             ELSE IF tgt \in {"linux_gnu", "linux_uclibc"}
             THEN Some(<<USub(stackaddr, guardsize), UAdd(stackaddr, guardsize)>>)
             ELSE Some(<<stackaddr, UAdd(stackaddr, guardsize)>>)

\* Option::unwrap_or(0..0), as init and make_handler apply it.
unwrap_or_empty(guard) == IF guard = None THEN <<0, 0>> ELSE guard[1]

\* A handler that takes the end of the range for a part of it.
InGuardInclusive(start, end, addr) == start <= addr /\ addr <= end

\* The comparison of signal_handler: start <= addr && addr < end.
InGuard(start, end, addr) == start <= addr /\ addr < end

\* A GUARD that is one static for all threads.
GuardCellShared(t) == 0

\* The thread-local slot of GUARD that thread t reads and writes.
GuardCell(t) == t

(***************************************************************************)
(* State.                                                                  *)
(***************************************************************************)
VARIABLES
    target,         \* the cfg the module was compiled for
    auxv,           \* getauxval(AT_MINSIGSTKSZ) of the process
    fail,           \* whether the kernel may refuse mmap, mprotect and munmap
    proc,           \* "running", "aborted" (rtabort) or "killed" (SIG_DFL)
    pc,             \* position of every thread
    sigi,           \* init: index of the signal the for loop is at
    disp,           \* kernel: disposition of SIGSEGV and SIGBUS
    disp0,          \* the dispositions the process started with
    GUARD,          \* thread-local GUARD, one cell per thread
    written,        \* the value the thread last wrote to its GUARD, an Option
    PAGE_SIZE,      \* static PAGE_SIZE
    PAGES,          \* OnceLock PAGES of install_main_guard (FreeBSD)
    MAIN_ALTSTACK,  \* static MAIN_ALTSTACK
    NEED_ALTSTACK,  \* static NEED_ALTSTACK
    mem,            \* kernel: the memory map
    sigalt,         \* kernel: alternate signal stack of every thread
    handler,        \* Handler.data held by every thread
    pending,        \* the signal of the fault a thread is stopped at, an Option
    initCount,      \* completed calls of init
    cleaned,        \* whether cleanup has run
    after1,         \* dispositions and NEED_ALTSTACK at the end of the first init
    ev              \* the last step taken: operation, thread and what it observed

vars == <<target, auxv, fail, proc, pc, sigi, disp, disp0, GUARD, written,
          PAGE_SIZE, PAGES, MAIN_ALTSTACK, NEED_ALTSTACK, mem, sigalt, handler,
          pending, initCount, cleaned, after1, ev>>

\* The order of the for loop of init.
SigOrder == <<SIGSEGV, SIGBUS>>

NoEv == [op |-> "none", t |-> Main, sig |-> SIGSEGV, addr |-> 0,
         guard |-> <<0, 0>>, data |-> NULL, mmaps |-> 0, unmap |-> None,
         hit |-> {}, failed |-> "", args |-> << >>, ret |-> << >>]
Ev(op, t) == [NoEv EXCEPT !.op = op, !.t = t]

\* The process before init: the statics at their initializers, the kernel
\* state as the process finds it.
InitState ==
    /\ target \in Targets
    /\ auxv \in (IF target \in {"linux_gnu", "linux_musl"} THEN AuxvVals ELSE {0})
    /\ proc = "running"
    /\ pc = [t \in Threads |-> IF t = Main THEN "idle" ELSE "unborn"]
    /\ sigi = [t \in Threads |-> 1]
    /\ disp0 \in [Signals -> {SIG_DFL, FOREIGN}]
    /\ disp = disp0
    /\ GUARD = [t \in Threads |-> <<0, 0>>]
    /\ written = [t \in Threads |-> None]
    /\ PAGE_SIZE = 0
    /\ PAGES = None
    /\ MAIN_ALTSTACK = NULL
    /\ NEED_ALTSTACK = FALSE
    /\ mem = << >>
    /\ sigalt \in [Threads -> {NoAltStack, ForeignAltStack}]
    /\ \A t \in Spawned : sigalt[t] = NoAltStack
    /\ handler = [t \in Threads |-> NULL]
    /\ pending = [t \in Threads |-> None]
    /\ initCount = 0
    /\ cleaned = FALSE
    /\ after1 = None

\* The kernel grants every mapping call.
Init ==
    /\ InitState
    /\ fail = FALSE
    /\ ev = NoEv

(***************************************************************************)
(* Kernel calls.                                                           *)
(***************************************************************************)
InRange(a, base, len) == base <= a /\ a < base + len

\* The entry of address a in the memory map m.
At(m, a) == IF a \in DOMAIN m THEN m[a] ELSE Unmapped

\* mmap of len bytes at base, read/write (MAP_FIXED replaces what is there).
mmap64(m, base, len, tag) ==
    [a \in DOMAIN m \cup {x \in Addrs : InRange(x, base, len)} |->
        IF InRange(a, base, len) THEN [prot |-> "rw", by |-> tag] ELSE m[a]]

mprotect(m, base, len, prot) ==
    [a \in DOMAIN m |-> IF InRange(a, base, len) THEN [m[a] EXCEPT !.prot = prot]
                        ELSE m[a]]

munmap(m, base, len) ==
    [a \in {x \in DOMAIN m : ~InRange(x, base, len)} |-> m[a]]

\* Where the kernel may place a new anonymous mapping of len bytes.
FreeBases(m, len) ==
    {b \in MmapBases : \A a \in b .. (b + len - 1) : a \in Addrs /\ a \notin DOMAIN m}

\* MAP_FAILED, (void *) -1.
MAP_FAILED == AddrSpace - 1
\* What mmap64(null, len, ..) may return: the address of a free area, or
\* MAP_FAILED when the kernel may refuse.
MmapOutcomes(m, len, f) == FreeBases(m, len) \cup (IF f THEN {MAP_FAILED} ELSE {})
\* What mprotect and munmap may return: 0, or -1 when the kernel may refuse.
CallOutcomes(f) == IF f THEN {0, -1} ELSE {0}

\* if stackp == MAP_FAILED
mmap_failed(stackp) == stackp = MAP_FAILED

\* A get_stack that does not look at what mprotect returned.
mprotect_unchecked(guard_result) == FALSE

\* if guard_result != 0
mprotect_failed(guard_result) == guard_result # 0

\* get_stack(): maps sigstack_size + page_size bytes (stackp is what mmap64
\* returned), protects the first page (guard_result is what mprotect
\* returned) and returns the stack_t; panics when a call failed.  A call
\* that failed has changed nothing.
get_stack(m, tgt, aux, page_size, stackp, guard_result, tag) ==
    LET size == sigstack_size(tgt, aux)
        m1 == IF stackp = MAP_FAILED THEN m
              ELSE mmap64(m, stackp, size + page_size, tag)
        m2 == IF guard_result = 0 THEN mprotect(m1, stackp, page_size, "none")
              ELSE m1
    IN  IF mmap_failed(stackp)
        THEN [mem |-> m1, panic |-> "mmap", stack |-> NoAltStack]
        ELSE IF mprotect_failed(guard_result)
        THEN [mem |-> m2, panic |-> "mprotect", stack |-> NoAltStack]
        ELSE [mem |-> m2, panic |-> "",
              stack |-> [ss_sp |-> UAdd(stackp, page_size), ss_size |-> size,
                         ss_flags |-> SS_ENABLED]]

\* A drop_handler that does not walk back over the guard page.
drop_handler_region_from_data(tgt, aux, page_size, data) ==
    <<data, sigstack_size(tgt, aux) + page_size>>

\* The region drop_handler passes to munmap: <<address, length>>.
drop_handler_region(tgt, aux, page_size, data) ==
    <<USub(data, page_size), sigstack_size(tgt, aux) + page_size>>

\* A drop_handler that disables the alternate stack of the thread for a
\* null data too.
drop_handler_sigalt_unchecked(sa, t, data) == [sa EXCEPT ![t] = NoAltStack]

\* drop_handler(data) called on thread t: the alternate stack of t is
\* disabled, then the region is unmapped; rc is what munmap returned, which
\* drop_handler does not look at.  Nothing happens for a null data.
drop_handler_sigalt(sa, t, data) ==
    IF data # NULL THEN [sa EXCEPT ![t] = NoAltStack] ELSE sa

drop_handler_mem(m, tgt, aux, page_size, data, rc) ==
    IF data # NULL /\ rc = 0
    THEN LET r == drop_handler_region(tgt, aux, page_size, data)
         IN  munmap(m, r[1], r[2])
    ELSE m

\* What a call of drop_handler did: the region it unmapped, an Option, and
\* whose mappings the addresses of that region belonged to before.
drop_handler_ev(op, t, m, tgt, aux, page_size, data, rc) ==
    IF data = NULL THEN [Ev(op, t) EXCEPT !.data = data]
    ELSE LET r == drop_handler_region(tgt, aux, page_size, data)
         IN  [Ev(op, t) EXCEPT
                 !.data = data,
                 !.unmap = Some(r),
                 !.failed = IF rc = 0 THEN "" ELSE "munmap",
                 !.hit = {At(m, a).by : a \in r[1] .. (r[1] + r[2] - 1)}]

(***************************************************************************)
(* Faults and signal_handler.                                              *)
(***************************************************************************)
Alive(t) == pc[t] \notin {"unborn", "exited", "panicked"}
\* A thread that is raising a fault executes nothing else.
CanRun(t) == proc = "running" /\ Alive(t) /\ pending[t] = None

\* An abort that lets the process go on.
rtabort_returns(p) == p

\* rtabort!: the process ends.
rtabort(p) == "aborted"

\* A handler that reverts both monitored signals.
revert_both(d, signum) == [s \in DOMAIN d |-> SIG_DFL]

\* A handler that leaves itself registered.
revert_skipped(d, signum) == d

\* sigaction(signum, SIG_DFL) of the else branch.
revert_to_default(d, signum) == [d EXCEPT ![signum] = SIG_DFL]

\* Thread t raises a fault at addr, signalled as signum: a fresh fault of the
\* code the thread runs outside this module, or the fault of the instruction
\* that runs again after the handler returned.  pending keeps the signal of
\* that instruction; its address is one the handler returned on, and GUARD
\* of the stopped thread has not changed since.
Raises(t, signum, addr) ==
    /\ proc = "running"
    /\ pc[t] \in {"idle", "running"}
    /\ \/ pending[t] = None
       \/ /\ pending[t] = Some(signum)
          /\ ~InGuard(GUARD[GuardCell(t)][1], GUARD[GuardCell(t)][2], addr)

\* The kernel delivers the fault to signal_handler.  When the handler returns
\* the faulting instruction runs again, so the fault stays pending.
signal_handler(t, signum, addr) ==
    /\ Raises(t, signum, addr)
    /\ disp[signum] = OURS
    /\ LET guard == GUARD[GuardCell(t)]
       IN  /\ ev' = [Ev("signal_handler", t) EXCEPT !.sig = signum, !.addr = addr,
                                                    !.guard = guard]
           /\ IF InGuard(guard[1], guard[2], addr)
              THEN /\ proc' = rtabort(proc)
                   /\ UNCHANGED <<disp, pending>>
              ELSE /\ disp' = revert_to_default(disp, signum)
                   /\ pending' = [pending EXCEPT ![t] = Some(signum)]
                   /\ UNCHANGED proc
    /\ UNCHANGED <<target, auxv, fail, pc, sigi, disp0, GUARD, written, PAGE_SIZE,
                   PAGES, MAIN_ALTSTACK, NEED_ALTSTACK, mem, sigalt, handler,
                   initCount, cleaned, after1>>

\* The fault of the instruction that runs again is delivered under SIG_DFL:
\* the process is terminated by the signal.
DefaultDisposition(t) ==
    /\ proc = "running"
    /\ pending[t] # None
    /\ disp[pending[t][1]] = SIG_DFL
    /\ proc' = "killed"
    /\ ev' = [Ev("default", t) EXCEPT !.sig = pending[t][1]]
    /\ UNCHANGED <<target, auxv, fail, pc, sigi, disp, disp0, GUARD, written,
                   PAGE_SIZE, PAGES, MAIN_ALTSTACK, NEED_ALTSTACK, mem, sigalt,
                   handler, pending, initCount, cleaned, after1>>

(***************************************************************************)
(* init, one system call or store at a time.                               *)
(***************************************************************************)
\* What get_stack_start may answer for the main thread on each target.
MainStartOptions(tgt) ==
    IF tgt = "linux_musl" THEN {None}
    ELSE {Some(s) : s \in MainStackStarts}
         \cup (IF tgt \in {"linux_gnu", "freebsd"} THEN {None} ELSE {})

\* What the thread-attribute query may answer for a spawned thread.
SpawnAttrOptions(tgt) ==
    IF tgt \in {"macos", "openbsd", "solaris"}
    THEN {Some([stackaddr |-> s, guardsize |-> 0]) : s \in SpawnStackStarts}
    ELSE {None} \cup {Some([stackaddr |-> s, guardsize |-> g]) :
                        s \in SpawnStackStarts, g \in GuardSizes}

\* PAGE_SIZE.store(os::page_size())
InitPageSize(t) ==
    /\ CanRun(t)
    /\ pc[t] = "idle"
    /\ ~cleaned
    /\ initCount < MaxInit
    /\ PAGE_SIZE' = PageSz
    /\ pc' = [pc EXCEPT ![t] = "init_guard"]
    /\ ev' = Ev("init_page_size", t)
    /\ UNCHANGED <<target, auxv, fail, proc, sigi, disp, disp0, GUARD, written,
                   PAGES, MAIN_ALTSTACK, NEED_ALTSTACK, mem, sigalt, handler,
                   pending, initCount, cleaned, after1>>

\* let guard = install_main_guard().unwrap_or(0..0); GUARD.set(..)
InitGuard(t) ==
    /\ CanRun(t)
    /\ pc[t] = "init_guard"
    /\ \E start \in MainStartOptions(target),
          pages \in (IF target = "freebsd" /\ PAGES = None THEN GuardPages
                     ELSE IF target = "freebsd" THEN {PAGES[1]} ELSE {1}) :
          LET r == install_main_guard(target, PAGE_SIZE, start, pages)
          IN  /\ GUARD' = [GUARD EXCEPT ![GuardCell(t)] = unwrap_or_empty(r.guard)]
              /\ mem' = IF r.maps = None THEN mem
                        ELSE mprotect(mmap64(mem, r.maps[1], PAGE_SIZE, GuardTag),
                                      r.maps[1], PAGE_SIZE, "none")
              /\ written' = [written EXCEPT ![t] = Some(unwrap_or_empty(r.guard))]
              /\ PAGES' = IF target = "freebsd" /\ start # None THEN Some(pages)
                          ELSE PAGES
              /\ ev' = [Ev("init_guard", t) EXCEPT
                            !.guard = unwrap_or_empty(r.guard),
                            !.args = start,
                            !.mmaps = IF r.maps = None THEN 0 ELSE 1]
    /\ pc' = [pc EXCEPT ![t] = "init_sigaction_get"]
    /\ sigi' = [sigi EXCEPT ![t] = 1]
    /\ UNCHANGED <<target, auxv, fail, proc, disp, disp0, PAGE_SIZE, MAIN_ALTSTACK,
                   NEED_ALTSTACK, sigalt, handler, pending, initCount, cleaned,
                   after1>>

\* Where init continues after the signal at index i.
AfterSignal(i) == IF i < Len(SigOrder) THEN "init_sigaction_get" ELSE "init_make_handler"

\* An init that installs its handler whatever it finds.
sigaction_unchecked(sa_sigaction) == TRUE

\* if action.sa_sigaction == SIG_DFL
sigaction_is_default(sa_sigaction) == sa_sigaction = SIG_DFL

\* sigaction(signal, null, &mut action) and the test of what it returned.
InitSigactionGet(t) ==
    /\ CanRun(t)
    /\ pc[t] = "init_sigaction_get"
    /\ IF sigaction_is_default(disp[SigOrder[sigi[t]]])
       THEN /\ pc' = [pc EXCEPT ![t] = "init_sigaction_set"]
            /\ UNCHANGED sigi
       ELSE /\ pc' = [pc EXCEPT ![t] = AfterSignal(sigi[t])]
            /\ sigi' = [sigi EXCEPT ![t] = IF @ < Len(SigOrder) THEN @ + 1 ELSE 1]
    /\ ev' = [Ev("init_sigaction_get", t) EXCEPT !.sig = SigOrder[sigi[t]]]
    /\ UNCHANGED <<target, auxv, fail, proc, disp, disp0, GUARD, written, PAGE_SIZE,
                   PAGES, MAIN_ALTSTACK, NEED_ALTSTACK, mem, sigalt, handler,
                   pending, initCount, cleaned, after1>>

\* sigaction(signal, &action, null); NEED_ALTSTACK.store(true)
InitSigactionSet(t) ==
    /\ CanRun(t)
    /\ pc[t] = "init_sigaction_set"
    /\ disp' = [disp EXCEPT ![SigOrder[sigi[t]]] = OURS]
    /\ NEED_ALTSTACK' = TRUE
    /\ pc' = [pc EXCEPT ![t] = AfterSignal(sigi[t])]
    /\ sigi' = [sigi EXCEPT ![t] = IF @ < Len(SigOrder) THEN @ + 1 ELSE 1]
    /\ ev' = [Ev("init_sigaction_set", t) EXCEPT !.sig = SigOrder[sigi[t]]]
    /\ UNCHANGED <<target, auxv, fail, proc, disp0, GUARD, written, PAGE_SIZE, PAGES,
                   MAIN_ALTSTACK, mem, sigalt, handler, pending, initCount, cleaned,
                   after1>>

(***************************************************************************)
(* make_handler.                                                           *)
(***************************************************************************)
\* A make_handler that does not look at NEED_ALTSTACK.
make_handler_unconditional(need) == TRUE

\* if !NEED_ALTSTACK.load() { return Handler::null(); }
\* The result says whether make_handler goes on.
make_handler_needed(need) == need

\* A make_handler that registers the alternate stack without writing GUARD.
make_handler_next_unwritten(main_thread) ==
    IF main_thread THEN "init_altstack" ELSE "make_handler_altstack"

\* if !main_thread { GUARD.set(current_guard()..) }: where make_handler goes
\* on after the load of NEED_ALTSTACK.
make_handler_next(main_thread) ==
    IF main_thread THEN "init_altstack" ELSE "make_handler_guard"

\* sigaltstack(null, &mut stack); if stack.ss_flags & SS_DISABLE != 0 {
\*   stack = get_stack(); sigaltstack(&stack, null); Handler { data: ss_sp }
\* } else { Handler::null() }
\* Thread t is at pc `from` and goes on to pc `to`; a panic of get_stack
\* ends the thread.
MakeHandlerStack(t, from, to, op) ==
    /\ CanRun(t)
    /\ pc[t] = from
    /\ IF sigalt[t].ss_flags = SS_DISABLE
       THEN \E stackp \in MmapOutcomes(mem, sigstack_size(target, auxv) + PAGE_SIZE, fail),
               guard_result \in CallOutcomes(fail) :
              LET r == get_stack(mem, target, auxv, PAGE_SIZE, stackp, guard_result, t)
              IN  IF r.panic # ""
                  THEN /\ mem' = r.mem
                       /\ pc' = [pc EXCEPT ![t] = "panicked"]
                       /\ ev' = [Ev(op, t) EXCEPT !.failed = r.panic, !.mmaps = 1]
                       /\ UNCHANGED <<sigalt, handler>>
                  ELSE /\ mem' = r.mem
                       /\ sigalt' = [sigalt EXCEPT ![t] = r.stack]
                       /\ handler' = [handler EXCEPT ![t] = r.stack.ss_sp]
                       /\ pc' = [pc EXCEPT ![t] = to]
                       /\ ev' = [Ev(op, t) EXCEPT !.data = r.stack.ss_sp, !.mmaps = 1]
       ELSE /\ handler' = [handler EXCEPT ![t] = NULL]
            /\ pc' = [pc EXCEPT ![t] = to]
            /\ ev' = Ev(op, t)
            /\ UNCHANGED <<mem, sigalt>>
    /\ UNCHANGED <<target, auxv, fail, proc, sigi, disp, disp0, GUARD, written,
                   PAGE_SIZE, PAGES, MAIN_ALTSTACK, NEED_ALTSTACK, pending,
                   initCount, cleaned, after1>>

\* init: let handler = make_handler(true), up to the load of NEED_ALTSTACK.
InitMakeHandler(t) ==
    /\ CanRun(t)
    /\ pc[t] = "init_make_handler"
    /\ IF make_handler_needed(NEED_ALTSTACK)
       THEN /\ pc' = [pc EXCEPT ![t] = make_handler_next(TRUE)]
            /\ UNCHANGED handler
       ELSE /\ pc' = [pc EXCEPT ![t] = "init_store"]
            /\ handler' = [handler EXCEPT ![t] = NULL]
    /\ ev' = Ev("init_make_handler", t)
    /\ UNCHANGED <<target, auxv, fail, proc, sigi, disp, disp0, GUARD, written,
                   PAGE_SIZE, PAGES, MAIN_ALTSTACK, NEED_ALTSTACK, mem, sigalt,
                   pending, initCount, cleaned, after1>>

\* init: the rest of make_handler(true).
InitAltStack(t) == MakeHandlerStack(t, "init_altstack", "init_store", "init_altstack")

\* MAIN_ALTSTACK.store(handler.data); mem::forget(handler)
InitStore(t) ==
    /\ CanRun(t)
    /\ pc[t] = "init_store"
    /\ MAIN_ALTSTACK' = handler[t]
    /\ handler' = [handler EXCEPT ![t] = NULL]
    /\ initCount' = initCount + 1
    /\ after1' = IF initCount = 0
                 THEN Some([disp |-> disp, need |-> NEED_ALTSTACK]) ELSE after1
    /\ pc' = [pc EXCEPT ![t] = "idle"]
    /\ ev' = [Ev("init_store", t) EXCEPT !.data = handler[t]]
    /\ UNCHANGED <<target, auxv, fail, proc, sigi, disp, disp0, GUARD, written,
                   PAGE_SIZE, PAGES, NEED_ALTSTACK, mem, sigalt, pending, cleaned>>

\* cleanup(): drop_handler(MAIN_ALTSTACK.load()), called once, after init,
\* on thread t.
cleanup(t) ==
    /\ CanRun(t)
    /\ pc[t] \in {"idle", "running"}
    /\ initCount >= 1
    /\ ~cleaned
    /\ cleaned' = TRUE
    /\ sigalt' = drop_handler_sigalt(sigalt, t, MAIN_ALTSTACK)
    /\ \E rc \in CallOutcomes(fail) :
          /\ mem' = drop_handler_mem(mem, target, auxv, PAGE_SIZE, MAIN_ALTSTACK, rc)
          /\ ev' = drop_handler_ev("cleanup", t, mem, target, auxv, PAGE_SIZE,
                                   MAIN_ALTSTACK, rc)
    /\ UNCHANGED <<target, auxv, fail, proc, pc, sigi, disp, disp0, GUARD, written,
                   PAGE_SIZE, PAGES, MAIN_ALTSTACK, NEED_ALTSTACK, handler, pending,
                   initCount, after1>>

(***************************************************************************)
(* Spawned threads: Handler::new() at the start, the drop at the end.      *)
(***************************************************************************)
\* A new thread starts (with fresh thread-locals and no alternate stack) and
\* calls Handler::new(), that is make_handler(false), up to the load of
\* NEED_ALTSTACK.  The slot of an ended thread is taken by the next one.
ThreadStart(t) ==
    /\ proc = "running"
    /\ pc[t] \in {"unborn", "exited"}
    /\ handler' = [handler EXCEPT ![t] = NULL]
    /\ pc' = [pc EXCEPT ![t] = IF make_handler_needed(NEED_ALTSTACK)
                               THEN make_handler_next(FALSE) ELSE "running"]
    /\ ev' = Ev("thread_start", t)
    /\ UNCHANGED <<target, auxv, fail, proc, sigi, disp, disp0, GUARD, written,
                   PAGE_SIZE, PAGES, MAIN_ALTSTACK, NEED_ALTSTACK, mem, sigalt,
                   pending, initCount, cleaned, after1>>

\* What the thread-attribute query reported, as ev keeps it: nothing, or
\* the stack address and the guard size.
AttrArgs(attr) ==
    IF attr = None THEN << >> ELSE <<attr[1].stackaddr, attr[1].guardsize>>

\* let guard = current_guard().unwrap_or(0..0); GUARD.set(..)
MakeHandlerGuard(t) ==
    /\ CanRun(t)
    /\ pc[t] = "make_handler_guard"
    /\ \E attr \in SpawnAttrOptions(target) :
          LET r == current_guard(target, PAGE_SIZE, attr)
          IN  IF r = Panic
              THEN /\ pc' = [pc EXCEPT ![t] = "panicked"]
                   /\ ev' = [Ev("make_handler_panic", t) EXCEPT !.args = AttrArgs(attr)]
                   /\ UNCHANGED <<GUARD, written>>
              ELSE /\ GUARD' = [GUARD EXCEPT ![GuardCell(t)] = unwrap_or_empty(r)]
                   /\ written' = [written EXCEPT ![t] = Some(unwrap_or_empty(r))]
                   /\ pc' = [pc EXCEPT ![t] = "make_handler_altstack"]
                   /\ ev' = [Ev("make_handler_guard", t) EXCEPT
                                 !.guard = unwrap_or_empty(r),
                                 !.args = AttrArgs(attr)]
    /\ UNCHANGED <<target, auxv, fail, proc, sigi, disp, disp0, PAGE_SIZE, PAGES,
                   MAIN_ALTSTACK, NEED_ALTSTACK, mem, sigalt, handler, pending,
                   initCount, cleaned, after1>>

MakeHandlerAltStack(t) ==
    MakeHandlerStack(t, "make_handler_altstack", "running", "make_handler_altstack")

\* The thread ends: its Handler is dropped, drop_handler(self.data), and
\* its thread-locals and its kernel state go with it.
ThreadExit(t) ==
    /\ CanRun(t)
    /\ pc[t] = "running"
    /\ sigalt' = [drop_handler_sigalt(sigalt, t, handler[t]) EXCEPT ![t] = NoAltStack]
    /\ \E rc \in CallOutcomes(fail) :
          /\ mem' = drop_handler_mem(mem, target, auxv, PAGE_SIZE, handler[t], rc)
          /\ ev' = drop_handler_ev("drop", t, mem, target, auxv, PAGE_SIZE,
                                   handler[t], rc)
    /\ handler' = [handler EXCEPT ![t] = NULL]
    /\ GUARD' = [GUARD EXCEPT ![GuardCell(t)] = <<0, 0>>]
    /\ written' = [written EXCEPT ![t] = None]
    /\ pc' = [pc EXCEPT ![t] = "exited"]
    /\ UNCHANGED <<target, auxv, fail, proc, sigi, disp, disp0, PAGE_SIZE, PAGES,
                   MAIN_ALTSTACK, NEED_ALTSTACK, pending, initCount, cleaned, after1>>

(***************************************************************************)
(* The specification.                                                      *)
(***************************************************************************)
FaultAddrs == 0 .. MaxFaultAddr

Next ==
    \/ \E t \in Threads, signum \in Signals, addr \in FaultAddrs :
          signal_handler(t, signum, addr)
    \/ \E t \in Threads : DefaultDisposition(t)
    \/ InitPageSize(Main)
    \/ InitGuard(Main)
    \/ InitSigactionGet(Main)
    \/ InitSigactionSet(Main)
    \/ InitMakeHandler(Main)
    \/ InitAltStack(Main)
    \/ InitStore(Main)
    \/ cleanup(Main)
    \/ \E t \in Spawned : ThreadStart(t)
    \/ \E t \in Spawned : MakeHandlerGuard(t)
    \/ \E t \in Spawned : MakeHandlerAltStack(t)
    \/ \E t \in Spawned : ThreadExit(t)

Spec == Init /\ [][Next]_vars

\* An embedding in which a second thread, not started through Handler::new,
\* comes to call init as well.
ForeignThreadStart(t) ==
    /\ proc = "running"
    /\ pc[t] = "unborn"
    /\ pc' = [pc EXCEPT ![t] = "idle"]
    /\ ev' = Ev("foreign_thread_start", t)
    /\ UNCHANGED <<target, auxv, fail, proc, sigi, disp, disp0, GUARD, written,
                   PAGE_SIZE, PAGES, MAIN_ALTSTACK, NEED_ALTSTACK, mem, sigalt,
                   handler, pending, initCount, cleaned, after1>>

\* Calls of init that race: every thread may be anywhere in init while
\* another is.
RaceNext ==
    \/ \E t \in Spawned : ForeignThreadStart(t)
    \/ \E t \in Threads : InitPageSize(t)
    \/ \E t \in Threads : InitGuard(t)
    \/ \E t \in Threads : InitSigactionGet(t)
    \/ \E t \in Threads : InitSigactionSet(t)
    \/ \E t \in Threads : InitMakeHandler(t)
    \/ \E t \in Threads : InitAltStack(t)
    \/ \E t \in Threads : InitStore(t)

RaceSpec == Init /\ [][RaceNext]_vars

\* The process-wide teardown may be invoked on any thread (the thread that
\* ends the process), not only on the one that called init.
ExitNext ==
    \/ InitPageSize(Main)
    \/ InitGuard(Main)
    \/ InitSigactionGet(Main)
    \/ InitSigactionSet(Main)
    \/ InitMakeHandler(Main)
    \/ InitAltStack(Main)
    \/ InitStore(Main)
    \/ \E t \in Spawned : ThreadStart(t)
    \/ \E t \in Spawned : MakeHandlerGuard(t)
    \/ \E t \in Spawned : MakeHandlerAltStack(t)
    \/ \E t \in Spawned : ThreadExit(t)
    \/ \E t \in Threads : cleanup(t)

ExitSpec == Init /\ [][ExitNext]_vars

\* The same process under a kernel that may refuse a mapping call: mmap64
\* may return MAP_FAILED, mprotect and munmap may return -1.
FailInit ==
    /\ InitState
    /\ fail = TRUE
    /\ ev = NoEv

FailNext ==
    \/ InitPageSize(Main)
    \/ InitGuard(Main)
    \/ InitSigactionGet(Main)
    \/ InitSigactionSet(Main)
    \/ InitMakeHandler(Main)
    \/ InitAltStack(Main)
    \/ InitStore(Main)
    \/ cleanup(Main)
    \/ \E t \in Spawned : ThreadStart(t)
    \/ \E t \in Spawned : MakeHandlerGuard(t)
    \/ \E t \in Spawned : MakeHandlerAltStack(t)
    \/ \E t \in Spawned : ThreadExit(t)

FailSpec == FailInit /\ [][FailNext]_vars

\* The functions on their own: a call is drawn (the arguments in ev.args),
\* the function is applied, its result is kept in ev.ret.
\* get_stack_start_aligned with page size p and reported stack start a.
AlignedCalls ==
    {[NoEv EXCEPT !.op = "call_get_stack_start_aligned", !.args = <<p, a>>] :
        p \in 1 .. MaxPage, a \in Addrs}

\* current_guard on two threads of one target, with the stack addresses s1,
\* s2 and the guard sizes g1, g2 the thread attributes report.
PureGuardSizes == {0, PageSz, 2 * PageSz}
GuardCalls ==
    {[NoEv EXCEPT !.op = "call_current_guard", !.args = <<s1, g1, s2, g2>>] :
        s1 \in Addrs, g1 \in PureGuardSizes, s2 \in Addrs, g2 \in PureGuardSizes}

PureInit ==
    /\ InitState
    /\ fail = FALSE
    /\ auxv = 0
    /\ disp0 = [s \in Signals |-> SIG_DFL]
    /\ sigalt = [t \in Threads |-> NoAltStack]
    /\ \/ ev \in AlignedCalls
       \/ ev \in GuardCalls

PureFrame ==
    UNCHANGED <<target, auxv, fail, proc, pc, sigi, disp, disp0, GUARD, written,
                PAGE_SIZE, PAGES, MAIN_ALTSTACK, NEED_ALTSTACK, mem, sigalt,
                handler, pending, initCount, cleaned, after1>>

CallGetStackStartAligned ==
    /\ ev.op = "call_get_stack_start_aligned"
    /\ ev' = [ev EXCEPT !.op = "get_stack_start_aligned",
                        !.ret = get_stack_start_aligned(ev.args[1], Some(ev.args[2]))]
    /\ PureFrame

CallCurrentGuard ==
    /\ ev.op = "call_current_guard"
    /\ ev' = [ev EXCEPT
                !.op = "current_guard",
                !.ret = <<current_guard(target, PageSz,
                              Some([stackaddr |-> ev.args[1], guardsize |-> ev.args[2]])),
                          current_guard(target, PageSz,
                              Some([stackaddr |-> ev.args[3], guardsize |-> ev.args[4]]))>>]
    /\ PureFrame

PureNext == CallGetStackStartAligned \/ CallCurrentGuard

PureSpec == PureInit /\ [][PureNext]_vars

\* A thread that is stopped at a faulting instruction runs it again: the
\* kernel schedules the thread, and the fault is delivered again.
Redeliver(t) ==
    /\ pending[t] # None
    /\ \/ DefaultDisposition(t)
       \/ \E signum \in Signals, addr \in FaultAddrs : signal_handler(t, signum, addr)

\* The specification the liveness of fault delivery is checked under: the
\* delivery of a fault does not depend on the guard geometry, so two targets
\* stand for all of them.
FairInit ==
    /\ Init
    /\ target \in {"linux_gnu", "macos"}
    /\ auxv = 0
    /\ sigalt[Main] = NoAltStack

FairSpec == FairInit /\ [][Next]_vars /\ \A t \in Threads : WF_vars(Redeliver(t))

(***************************************************************************)
(* Properties.                                                             *)
(***************************************************************************)
\* The half-open range test, as the properties state it.
Within(range, a) == range[1] <= a /\ a < range[2]

\* A step of thread t that is part of a call of init.
InitPcs == {"init_guard", "init_sigaction_get", "init_sigaction_set",
            "init_make_handler", "init_altstack", "init_store"}
InitStepOf(t) == pc[t] \in InitPcs /\ pc'[t] # pc[t]

\* The addresses of the memory map that a mapping tagged `tag` covers.
MappedBy(tag) == {a \in DOMAIN mem : mem[a].by = tag}

\* C1: for the guard range (s, e) in the faulting thread's GUARD and every
\* fault address a, signal_handler takes the fault for a stack overflow (and
\* aborts) if and only if s <= a < e; otherwise it returns.
C1_OverflowIffInRange ==
    ev.op = "signal_handler" =>
        /\ (proc = "aborted") <=> Within(GUARD[ev.t], ev.addr)
        /\ (proc = "running") <=> ~Within(GUARD[ev.t], ev.addr)

\* C1 witness: a fault at the last address of a guard range of more than one
\* address was taken for an overflow.
C1_Witness ==
    /\ ev.op = "signal_handler"
    /\ GUARD[ev.t][1] + 1 < GUARD[ev.t][2]
    /\ ev.addr = GUARD[ev.t][2] - 1
    /\ proc = "aborted"

\* Further cases of C1 that are reached: the first address of the range is
\* inside, the end of the range is outside.
C1_StartInside ==
    ev.op = "signal_handler" /\ GUARD[ev.t][1] < GUARD[ev.t][2]
    /\ ev.addr = GUARD[ev.t][1] /\ proc = "aborted"
C1_EndOutside ==
    ev.op = "signal_handler" /\ GUARD[ev.t][1] < GUARD[ev.t][2]
    /\ ev.addr = GUARD[ev.t][2] /\ proc = "running"

\* C2: when signal_handler runs with a fault address inside the guard range
\* of the current thread, the process is aborted: the handler does not
\* return (the fault is not left to be raised again), the disposition of
\* the signal is not reverted, and no thread takes a step afterwards.
C2_OverflowAborts ==
    /\ [][(ev'.op = "signal_handler" /\ Within(GUARD[ev'.t], ev'.addr))
            => (proc' = "aborted" /\ disp' = disp /\ pending' = pending)]_vars
    /\ [][proc = "aborted" => UNCHANGED vars]_vars

\* C2 witness: the handler has aborted the process on an overflow.
C2_Witness ==
    /\ proc = "aborted"
    /\ ev.op = "signal_handler"
    /\ Within(GUARD[ev.t], ev.addr)
    /\ disp[ev.sig] = OURS

\* C3, as stated: a fault outside the guard range of the faulting thread is
\* raised again after signal_handler has returned, and the process ends by
\* the default disposition of the signal.  In the form a finite run decides:
\* when the process has ended with such a fault outstanding, the default
\* disposition has ended it.
C3_EndsByDefaultDisposition ==
    \A t \in Threads :
        (pending[t] # None /\ proc # "running") => proc = "killed"

\* C3, amended: signal_handler returns with the disposition of the signal
\* reverted to default; the thread does nothing else until the fault is
\* delivered again; and the process eventually ends, by the default
\* disposition or, before that, by the abort of a stack overflow that another
\* thread ran into.
C3_NotSwallowed ==
    /\ [][(ev'.op = "signal_handler" /\ ~Within(GUARD[ev'.t], ev'.addr))
            => /\ proc' = "running"
               /\ disp' = [disp EXCEPT ![ev'.sig] = SIG_DFL]
               /\ pending'[ev'.t] = Some(ev'.sig)]_vars
    /\ [][\A t \in Threads :
            pending[t] # None
                => /\ pc'[t] = pc[t] /\ pending'[t] = pending[t]
                   /\ (proc' = "aborted" => ev'.t # t)]_vars
    /\ \A t \in Threads : (pending[t] # None) ~> (proc \in {"killed", "aborted"})

\* C3 witness: the default disposition has ended the process after the
\* handler had returned on a fault outside the guard range.
C3_Witness ==
    /\ proc = "killed"
    /\ ev.op = "default"
    /\ pending[ev.t] = Some(ev.sig)
    /\ written[ev.t] # None

\* C4: init never overrides a handler that is not the platform default: no
\* step of init changes a disposition that is not SIG_DFL, and a signal
\* that had a foreign handler when the process started has it at the end of
\* init, and ever after.
C4_InitKeepsNonDefault ==
    /\ [][\A t \in Threads : InitStepOf(t) =>
            \A s \in Signals : disp[s] # SIG_DFL => disp'[s] = disp[s]]_vars
    /\ [](\A s \in Signals : disp0[s] = FOREIGN => disp[s] = FOREIGN)

\* C4 witness: init has run to its end, installed its handler on SIGBUS
\* and left the foreign handler of SIGSEGV in place.
C4_Witness ==
    /\ initCount >= 1
    /\ pc[Main] = "idle"
    /\ disp0[SIGSEGV] = FOREIGN /\ disp[SIGSEGV] = FOREIGN
    /\ disp0[SIGBUS] = SIG_DFL /\ disp[SIGBUS] = OURS

\* A thread has an alternate signal stack that this module registered.
ArmedByUs(t) ==
    /\ sigalt[t].ss_flags = SS_ENABLED
    /\ sigalt[t] # ForeignAltStack

\* C5: a thread's GUARD is written before its alternate signal stack is
\* registered: in every state in which a thread has an alternate stack
\* armed by this module, the thread has written its GUARD (by init for
\* the main thread, by make_handler for a spawned thread), and GUARD holds
\* the value written.
C5_GuardWrittenBeforeArmed ==
    \A t \in Threads :
        ArmedByUs(t) => /\ written[t] # None
                        /\ GUARD[t] = written[t][1]

\* C5 witness: a spawned thread has its alternate stack armed, and its GUARD
\* holds a range make_handler resolved.
C5_Witness ==
    \E t \in Spawned :
        /\ ArmedByUs(t)
        /\ ev.op = "make_handler_altstack" /\ ev.t = t
        /\ written[t] # None
        /\ GUARD[t][1] < GUARD[t][2]

\* C5 also covers the empty range: armed with GUARD written as (0, 0).
C5_WitnessEmpty ==
    \E t \in Threads : ArmedByUs(t) /\ written[t] = Some(<<0, 0>>)

\* Whose mapping a call of drop_handler is to release: the main thread's for
\* cleanup, the dropping thread's for the drop of a Handler.
OwnerOf(e) == IF e.op = "cleanup" THEN Main ELSE e.t

\* No call of drop_handler unmaps anything but a live mapping of its owner:
\* a second munmap of a mapping would hit unmapped addresses, or the
\* mapping that took its place.
UnmapsOnlyLive == ev.unmap # None => ev.hit = {OwnerOf(ev)}

\* No mapping of a spawned thread outlives the thread.
NoneLeftByExited == \A t \in Spawned : pc[t] = "exited" => MappedBy(t) = {}

\* cleanup has released what get_stack mapped for the main thread.
NoneLeftByCleanup == cleaned => MappedBy(Main) = {}

\* C6: every alt-stack mapping make_handler created is released exactly
\* once, by the drop of the Handler of its thread or, for the main thread,
\* by cleanup: none is unmapped twice, none of a spawned thread is left when
\* the thread has ended, none of the main thread is left after cleanup.
C6_ReleasedExactlyOnce ==
    /\ UnmapsOnlyLive
    /\ NoneLeftByExited
    /\ NoneLeftByCleanup

\* What holds of C6 in every run: the parts on double release and on spawned
\* threads, and the release by cleanup when init has run once only.
C6_HoldsApartFromSecondInit ==
    /\ UnmapsOnlyLive
    /\ NoneLeftByExited
    /\ (initCount = 1 /\ pc[Main] = "idle") => NoneLeftByCleanup

\* Both signals had a handler of other code when the process started.
BothForeign == \A s \in Signals : disp0[s] = FOREIGN

\* NEED_ALTSTACK is true once init has run to its end in a process in which
\* it found the default disposition for a signal (and so installed its own).
NeedAfterInstall ==
    (initCount >= 1 /\ \E s \in Signals : disp0[s] = SIG_DFL) => NEED_ALTSTACK

\* C7, as stated: with a non-default handler on both signals at init,
\* NEED_ALTSTACK stays false, make_handler returns the null handle for every
\* thread and this module never calls mmap; and NEED_ALTSTACK is true after
\* an init that installed its handler.
C7_NoMmapAtAll ==
    /\ BothForeign =>
          /\ ~NEED_ALTSTACK
          /\ MAIN_ALTSTACK = NULL
          /\ \A t \in Threads : handler[t] = NULL
          /\ ev.mmaps = 0
    /\ NeedAfterInstall

\* C7, amended: with a non-default handler on both signals at init,
\* NEED_ALTSTACK stays false, make_handler returns the null handle for every
\* thread and no alternate stack is ever mapped or registered; the only
\* mmap call left is the one of install_main_guard on the targets that map
\* the guard page of the main thread themselves.  NEED_ALTSTACK is true
\* after an init that installed its handler.
C7_NoAltStackMapped ==
    /\ BothForeign =>
          /\ ~NEED_ALTSTACK
          /\ MAIN_ALTSTACK = NULL
          /\ \A t \in Threads : handler[t] = NULL /\ MappedBy(t) = {} /\ ~ArmedByUs(t)
          /\ ev.mmaps > 0 => (ev.op = "init_guard" /\ MappedBy(GuardTag) # {})
    /\ NeedAfterInstall

\* C7 witness: init has run with foreign handlers on both signals, and a
\* thread spawned afterwards runs with the null handle.
C7_Witness ==
    /\ BothForeign
    /\ initCount >= 1
    /\ \E t \in Spawned : pc[t] = "running" /\ handler[t] = NULL
                          /\ ev.op = "thread_start" /\ ev.t = t

\* C8, as stated: a second run of init changes neither a disposition nor
\* NEED_ALTSTACK, and does not come to install the handler again.
C8_SecondInitChangesNothing ==
    [][\A t \in Threads : (InitStepOf(t) /\ initCount >= 1) =>
          /\ disp' = disp
          /\ NEED_ALTSTACK' = NEED_ALTSTACK
          /\ pc'[t] # "init_sigaction_set"]_vars

\* C8, amended: a second run of init leaves NEED_ALTSTACK as it was and
\* changes no disposition that is not the default; it installs the handler
\* again only on a signal that it finds with the default disposition, which
\* is a signal the first run found so too and signal_handler has reverted
\* since.
C8_SecondInitOnlyReinstalls ==
    [][\A t \in Threads : (InitStepOf(t) /\ initCount >= 1) =>
          /\ NEED_ALTSTACK' = NEED_ALTSTACK
          /\ \A s \in Signals :
                disp'[s] # disp[s] =>
                    disp[s] = SIG_DFL /\ disp'[s] = OURS /\ disp0[s] = SIG_DFL
          /\ pc'[t] = "init_sigaction_set" =>
                disp[SigOrder[sigi[t]]] = SIG_DFL]_vars

\* C8 witness: a second run of init has ended with the dispositions and the
\* flag as the first run left them, its handler installed.
C8_Witness ==
    /\ initCount = 2
    /\ ev.op = "init_store"
    /\ after1 = Some([disp |-> disp, need |-> NEED_ALTSTACK])
    /\ \E s \in Signals : disp[s] = OURS

\* The addresses of the mapping get_stack made for the handle `data`.
RegionOf(data) ==
    (data - PAGE_SIZE) .. (data + sigstack_size(target, auxv) - 1)

\* C9: drop_handler unmaps exactly the region get_stack mapped for the
\* handle, from one page before the handle pointer, min_size + page_size
\* long: it hits nothing but that mapping and leaves nothing of it, and the
\* alternate stack of the thread is disabled as before make_handler.  A
\* spawned thread owns the region of its handle while it holds one and no
\* mapping otherwise, however many threads have come and gone.
C9_DropRestores ==
    /\ ev.unmap # None =>
          /\ ev.unmap[1] = <<ev.data - PAGE_SIZE,
                             sigstack_size(target, auxv) + PAGE_SIZE>>
          /\ ev.hit = {OwnerOf(ev)}
          /\ MappedBy(OwnerOf(ev)) = {}
          /\ sigalt[ev.t] = NoAltStack
    /\ \A t \in Spawned :
          IF handler[t] # NULL
          THEN /\ MappedBy(t) = RegionOf(handler[t])
               /\ sigalt[t].ss_sp = handler[t]
               /\ sigalt[t].ss_flags = SS_ENABLED
          ELSE MappedBy(t) = {} /\ ~ArmedByUs(t)

\* C9 witness: the Handler of a spawned thread has been dropped and its
\* region unmapped, at an address where a mapping had been released before
\* (the main thread's, by cleanup).
C9_Witness ==
    /\ ev.op = "drop"
    /\ ev.unmap # None
    /\ ev.t \in Spawned
    /\ cleaned
    /\ MappedBy(Main) = {}
    /\ ev.data = HeapBase + PAGE_SIZE

\* C10: the guard range signal_handler reads is the value the faulting
\* thread wrote itself (the initial (0, 0) if it wrote none), and a step
\* in which a thread does not write its GUARD does not change the value its
\* handler reads, whatever the other threads write.
C10_ReadsOwnGuard ==
    /\ [](ev.op = "signal_handler" => ev.guard = unwrap_or_empty(written[ev.t]))
    /\ [][\A t \in Threads :
            written'[t] = written[t] => GUARD'[GuardCell(t)] = GUARD[GuardCell(t)]]_vars

\* C10 witness: signal_handler has run on a thread while another thread had
\* written a different range to its own GUARD.
C10_Witness ==
    /\ ev.op = "signal_handler"
    /\ written[ev.t] # None
    /\ \E u \in Threads \ {ev.t} :
          /\ written[u] # None
          /\ written[u] # written[ev.t]
          /\ written[u][1][1] < written[u][1][2]

\* The main thread holds the alternate stack that MAIN_ALTSTACK points to,
\* mapped and registered.
MainAltStackRecorded ==
    /\ MAIN_ALTSTACK = sigalt[Main].ss_sp
    /\ MappedBy(Main) = RegionOf(MAIN_ALTSTACK)

\* C11: from the end of init until cleanup, after any number of calls of
\* init, MAIN_ALTSTACK holds the pointer of the alternate stack init
\* allocated and registered for the main thread and that mapping is mapped;
\* cleanup releases it.
C11_MainAltStackKept ==
    /\ (initCount >= 1 /\ pc[Main] = "idle" /\ ~cleaned /\ ArmedByUs(Main))
          => MainAltStackRecorded
    /\ cleaned => (MappedBy(Main) = {} /\ ~ArmedByUs(Main))

\* What holds of C11 in every run: the same, as long as init has been
\* called once only.
C11_HoldsAfterFirstInit ==
    /\ (initCount = 1 /\ pc[Main] = "idle" /\ ~cleaned /\ ArmedByUs(Main))
          => MainAltStackRecorded
    /\ (initCount = 1 /\ pc[Main] = "idle" /\ cleaned)
          => (MappedBy(Main) = {} /\ ~ArmedByUs(Main))

\* What one call of init leaves, from the dispositions d0 it starts with.
SingleInitDisp(d0) == [s \in Signals |-> IF d0[s] = SIG_DFL THEN OURS ELSE d0[s]]
SingleInitNeed(d0) == \E s \in Signals : d0[s] = SIG_DFL

\* C12: when calls of init by two threads race, every interleaving ends
\* (no call in progress any more) with the dispositions and the
\* NEED_ALTSTACK that one call of init leaves, and at no step is a handler
\* overridden that was there before and is not the default.
C12_RaceEndsAsSingleInit ==
    /\ []((initCount >= 1 /\ \A t \in Threads : pc[t] \notin InitPcs)
            => /\ disp = SingleInitDisp(disp0)
               /\ NEED_ALTSTACK = SingleInitNeed(disp0))
    /\ [][\A s \in Signals : disp0[s] # SIG_DFL => disp'[s] = disp0[s]]_vars

\* C12 witness: two threads have each called init, neither is in it any
\* more, and the handler is installed.
C12_Witness ==
    /\ initCount >= 2
    /\ \A t \in Threads : pc[t] = "idle" /\ written[t] # None
    /\ ev.op = "init_store"
    /\ \E s \in Signals : disp[s] = OURS
    /\ \E s \in Signals : disp[s] = FOREIGN

\* The calls do overlap: both threads are between the first and the last
\* step of init, one having installed the handler the other is about to
\* install.
C12_BothInside ==
    /\ pc[Main] = "init_sigaction_set"
    /\ \E t \in Spawned : pc[t] \in InitPcs
    /\ disp[SigOrder[sigi[Main]]] = OURS

\* The steps that read PAGE_SIZE: install_main_guard (with
\* get_stack_start_aligned) and current_guard when they compute a range,
\* get_stack when it maps, drop_handler when it unmaps.
ReadsPageSize(e) ==
    \/ e.op \in {"init_guard", "make_handler_guard", "make_handler_panic"}
    \/ e.op \in {"init_altstack", "make_handler_altstack"} /\ e.mmaps > 0
    \/ e.op \in {"drop", "cleanup"} /\ e.unmap # None

\* C13: PAGE_SIZE holds the page size of the OS, which is not zero, in
\* every state in which a guard range is computed or an alternate stack is
\* allocated or released: no such step comes before init has stored it,
\* also when Handler::new is called before init.
C13_PageSizeStoredBeforeRead ==
    ReadsPageSize(ev) => (PAGE_SIZE = PageSz /\ PAGE_SIZE # 0)

\* C13 witness: a spawned thread has mapped its alternate stack, of
\* sigstack_size + PAGE_SIZE bytes, with the page size init stored.
C13_Witness ==
    /\ ev.op = "make_handler_altstack"
    /\ ev.mmaps > 0
    /\ PAGE_SIZE = PageSz
    /\ MappedBy(ev.t) = RegionOf(handler[ev.t])

\* Handler::new before init: the thread runs with the null handle while
\* PAGE_SIZE is still zero, and its drop unmaps nothing.
C13_NewBeforeInit ==
    /\ PAGE_SIZE = 0
    /\ ev.op = "drop"
    /\ ev.unmap = None
    /\ mem = << >>

\* A step that is the call of cleanup.
IsCleanup == ~cleaned /\ cleaned'

\* What cleanup leaves alone of thread t: its alternate-stack mapping, its
\* registration and its GUARD.
CleanupKeeps(t) ==
    /\ {a \in DOMAIN mem' : mem'[a].by = t} = MappedBy(t)
    /\ \A a \in MappedBy(t) : mem'[a] = mem[a]
    /\ sigalt'[t] = sigalt[t]
    /\ GUARD'[GuardCell(t)] = GUARD[GuardCell(t)]

\* C14: cleanup releases the alternate stack of the main thread only: the
\* alternate-stack mapping, the registration and the GUARD of every other
\* live thread are as before.
C14_CleanupOnlyMain ==
    [][IsCleanup => \A t \in Threads \ {Main} : Alive(t) => CleanupKeeps(t)]_vars

\* What holds of C14 in every run: a cleanup called on the main thread
\* leaves the other threads alone, and a cleanup called on another thread
\* leaves that thread's mapping and GUARD (not its registration) alone.
C14_HoldsOnMainThread ==
    [][IsCleanup =>
          \A t \in Threads \ {Main} :
              /\ ev'.t = Main => CleanupKeeps(t)
              /\ {a \in DOMAIN mem' : mem'[a].by = t} = MappedBy(t)
              /\ GUARD'[GuardCell(t)] = GUARD[GuardCell(t)]]_vars

\* The addresses drop_handler has unmapped.
Unmapped_(e) == e.unmap[1][1] .. (e.unmap[1][1] + e.unmap[1][2] - 1)

\* C19: when drop_handler unmaps an alternate-stack mapping, the mapping
\* is not registered as the alternate signal stack of any thread: the
\* owner's registration has been disabled before the munmap, also when
\* cleanup runs on a thread other than the one that registered the stack.
C19_DisabledBeforeUnmap ==
    ev.unmap # None =>
        \A t \in Threads :
            ~(sigalt[t].ss_flags = SS_ENABLED /\ sigalt[t].ss_sp \in Unmapped_(ev))

\* The alternate stack registered for thread t is what a get_stack that
\* succeeded leaves: the guard page below ss_sp without access, the stack
\* above it readable and writable.
RegisteredStackUsable(t) ==
    \A a \in RegionOf(sigalt[t].ss_sp) :
        /\ At(mem, a).by = t
        /\ At(mem, a).prot = IF a < sigalt[t].ss_sp THEN "none" ELSE "rw"

\* C15: when mmap or mprotect fails in get_stack, the call ends in a
\* panic that names the call: no handle is returned, no alternate stack is
\* registered, and the thread does not go on; so a stack that is registered
\* is one whose allocation succeeded.
C15_AllocFailureIsFatal ==
    /\ [](ev.failed \in {"mmap", "mprotect"}
            => /\ pc[ev.t] = "panicked"
               /\ handler[ev.t] = NULL
               /\ sigalt[ev.t].ss_flags = SS_DISABLE)
    /\ [](\A t \in Threads : ArmedByUs(t) => RegisteredStackUsable(t))
    /\ [][\A t \in Threads :
            pc[t] = "panicked"
                => /\ pc'[t] = "panicked"
                   /\ handler'[t] = handler[t]
                   /\ sigalt'[t] = sigalt[t]]_vars

\* C15 witness: mprotect has failed in get_stack on a spawned thread; the
\* thread has panicked with the region mapped and not registered.
C15_Witness ==
    /\ ev.failed = "mprotect"
    /\ ev.t \in Spawned
    /\ pc[ev.t] = "panicked"
    /\ MappedBy(ev.t) # {}
    /\ sigalt[ev.t] = NoAltStack

\* The other failure of C15 that is reached: mmap has failed in init.
C15_MmapFailedInInit ==
    ev.failed = "mmap" /\ ev.t = Main /\ pc[Main] = "panicked" /\ mem = << >>

\* C16: a failure of munmap on the release path (the drop of a Handler,
\* or cleanup) is fatal: the thread does not go on as after a release.
C16_UnmapFailureIsFatal ==
    ev.failed = "munmap" => (pc[ev.t] = "panicked" \/ proc # "running")

\* The smallest multiple of p that is >= a, as a number.
SmallestMultipleAtLeast(p, a) ==
    CHOOSE m \in a .. (a + p) : m % p = 0 /\ \A k \in a .. (m - 1) : k % p # 0

IsRange(r) == r # None /\ r # Panic

\* C18: for two spawned threads on one target, current_guard yields
\* different ranges whenever the stack addresses reported differ, whatever
\* the two guard sizes reported (when both calls yield a range).
C18_DistinctStacksDistinctGuards ==
    (ev.op = "current_guard" /\ ev.args[1] # ev.args[3]
        /\ IsRange(ev.ret[1]) /\ IsRange(ev.ret[2]))
      => ev.ret[1] # ev.ret[2]

\* C18 witness: two ranges on glibc that start at the same address, from
\* different stack addresses and guard sizes, and differ in their end.
C18_Witness ==
    /\ ev.op = "current_guard"
    /\ target = "linux_gnu"
    /\ ev.args[1] # ev.args[3]
    /\ ev.args[2] # ev.args[4]
    /\ IsRange(ev.ret[1]) /\ IsRange(ev.ret[2])
    /\ ev.ret[1][1][1] = ev.ret[2][1][1]
    /\ ev.ret[1][1][2] # ev.ret[2][1][2]

\* C20: when signal_handler takes a fault for none of a stack overflow, it
\* changes the disposition of the signal it was invoked for (to default)
\* and nothing else: the disposition of the other signal, every thread's
\* GUARD, NEED_ALTSTACK, PAGE_SIZE, MAIN_ALTSTACK and all alternate-stack
\* mappings and registrations are as before.
C20_RevertsOnlyItsSignal ==
    [][(ev'.op = "signal_handler" /\ ~Within(GUARD[ev'.t], ev'.addr))
          => /\ disp'[ev'.sig] = SIG_DFL
             /\ \A s \in Signals \ {ev'.sig} : disp'[s] = disp[s]
             /\ UNCHANGED <<GUARD, NEED_ALTSTACK, PAGE_SIZE, MAIN_ALTSTACK,
                            mem, sigalt, handler>>]_vars

\* C20 witness: the handler has returned on a fault of one signal while
\* it is installed for the other, with alternate stacks mapped and
\* registered for the main thread and for a spawned thread.
C20_Witness ==
    /\ ev.op = "signal_handler"
    /\ proc = "running"
    /\ disp[ev.sig] = SIG_DFL
    /\ \E s \in Signals \ {ev.sig} : disp[s] = OURS
    /\ NEED_ALTSTACK
    /\ MAIN_ALTSTACK # NULL
    /\ \E t \in Spawned : handler[t] # NULL /\ ArmedByUs(t)

\* min_size: the larger of the static minimum and the auxiliary-vector
\* value of the process (0 when the entry is absent).
MinSize == IF auxv > SIGSTKSZ THEN auxv ELSE SIGSTKSZ

\* A step in which get_stack has run to its end.
GetStackReturned(e) ==
    e.op \in {"init_altstack", "make_handler_altstack"} /\ e.mmaps > 0 /\ e.failed = ""

\* C21: get_stack maps one region of min_size + page_size bytes, readable
\* and writable but for its first page, which has no access, and returns
\* the stack_t whose pointer is the start of the mapping plus page_size and
\* whose size is min_size; the stack does not overlap the guard page.
C21_GetStackLayout ==
    GetStackReturned(ev) =>
        LET sp == sigalt[ev.t].ss_sp
            start == sp - PAGE_SIZE
        IN  /\ ev.data = sp
            /\ sigalt[ev.t].ss_size = MinSize
            /\ sigalt[ev.t].ss_flags = SS_ENABLED
            /\ MappedBy(ev.t) = start .. (start + MinSize + PAGE_SIZE - 1)
            /\ \A a \in start .. (start + PAGE_SIZE - 1) : mem[a].prot = "none"
            /\ \A a \in sp .. (sp + MinSize - 1) : mem[a].prot = "rw"
            /\ (sp .. (sp + sigalt[ev.t].ss_size - 1))
                  \cap (start .. (start + PAGE_SIZE - 1)) = {}

\* C21 witness: on Linux with an auxiliary-vector value above SIGSTKSZ,
\* get_stack has returned a stack of that size.
C21_Witness ==
    /\ GetStackReturned(ev)
    /\ auxv > SIGSTKSZ
    /\ sigalt[ev.t].ss_size = auxv
    /\ Cardinality(MappedBy(ev.t)) = auxv + PAGE_SIZE

\* The targets on which the kernel guards the main stack by itself (Linux
\* without musl) or leaves the guard out of the reported stack (OpenBSD).
BelowStackTargets == {"linux_gnu", "openbsd"}

\* The guard page that InitGuard's install_main_guard has mapped.
GuardPageMapped == MappedBy(GuardTag)

\* The range and the calls: on the kernel-auto-guard and
\* excluded-guard targets, install_main_guard on a reported stack start
\* returns <<b - page_size, b>>, b the smallest multiple of page_size not
\* below that start, and calls neither mmap nor mprotect; a mapped guard
\* page exists on the manual-mapping target only.
C22_RangeBelowStackNoCalls ==
    /\ (ev.op = "init_guard" /\ target \in BelowStackTargets /\ ev.args # None) =>
           LET b == SmallestMultipleAtLeast(PAGE_SIZE, ev.args[1])
           IN  /\ ev.guard = <<b - PAGE_SIZE, b>>
               /\ written[ev.t] = Some(<<b - PAGE_SIZE, b>>)
               /\ GUARD[ev.t] = <<b - PAGE_SIZE, b>>
    /\ (ev.op = "init_guard" /\ target \in BelowStackTargets) => ev.mmaps = 0
    /\ (ev.op = "init_guard" /\ ev.mmaps > 0) => target = "macos"
    /\ GuardPageMapped # {} => target = "macos"

\* The frame: a step of install_main_guard leaves the memory map as
\* it was on every target but the manual-mapping one.
C22_OnlyManualChangesMemory ==
    [][(ev'.op = "init_guard" /\ pc[ev'.t] = "init_guard" /\ target # "macos")
          => mem' = mem]_vars

\* C22: on the kernel-auto-guard and excluded-guard targets
\* install_main_guard returns exactly [b - page_size, b), b the page-aligned
\* stack start, without an mmap or mprotect call, and only the
\* manual-mapping target changes the memory map while the main thread's
\* guard is resolved.
C22_InstallMainGuardFrame ==
    []C22_RangeBelowStackNoCalls /\ C22_OnlyManualChangesMemory

\* C22 witness: on Linux with glibc install_main_guard has resolved the
\* guard of a main stack that does not start on a page boundary, with
\* nothing mapped.
C22_Witness ==
    /\ ev.op = "init_guard"
    /\ target = "linux_gnu"
    /\ ev.args # None
    /\ ev.args[1] % PAGE_SIZE # 0
    /\ ev.guard = <<ev.args[1] + 1 - PAGE_SIZE, ev.args[1] + 1>>
    /\ ev.mmaps = 0
    /\ mem = << >>

\* The manual-mapping target does change the memory map: the page at the
\* aligned stack start is mapped and has no access.
C22_ManualMaps ==
    /\ ev.op = "init_guard"
    /\ target = "macos"
    /\ ev.mmaps = 1
    /\ GuardPageMapped = ev.guard[1] .. (ev.guard[2] - 1)
    /\ \A a \in GuardPageMapped : mem[a].prot = "none"

\* The range around the reported stack address b with guard size g.
AroundBoundary(b, g) == <<b - g, b + g>>

\* C23: on Linux with glibc, current_guard of a spawned thread whose
\* attributes report the stack address b and the guard size g > 0 returns
\* [b - g, b + g), and signal_handler takes a fault of that thread at every
\* address from b - g to b + g - 1, below b and from b on, for an overflow.
C23_GlibcGuardBothSides ==
    /\ (ev.op = "make_handler_guard" /\ target = "linux_gnu" /\ ev.args # << >>) =>
           /\ ev.args[2] > 0
           /\ ev.guard = AroundBoundary(ev.args[1], ev.args[2])
           /\ GUARD[ev.t] = AroundBoundary(ev.args[1], ev.args[2])
           /\ written[ev.t] = Some(AroundBoundary(ev.args[1], ev.args[2]))
    /\ (ev.op = "signal_handler" /\ target = "linux_gnu" /\ ev.t \in Spawned) =>
           \A b \in SpawnStackStarts, g \in GuardSizes \ {0} :
               (/\ written[ev.t] = Some(AroundBoundary(b, g))
                /\ b - g <= ev.addr
                /\ ev.addr <= b + g - 1) => proc = "aborted"

\* C23 witness: a fault of a glibc thread at the last address of the range,
\* above the reported stack address, was taken for an overflow.
C23_Witness ==
    /\ ev.op = "signal_handler"
    /\ target = "linux_gnu"
    /\ ev.t \in Spawned
    /\ \E b \in SpawnStackStarts, g \in GuardSizes \ {0} :
          /\ written[ev.t] = Some(AroundBoundary(b, g))
          /\ ev.addr = b + g - 1
          /\ ev.addr > b
    /\ proc = "aborted"

\* The other side is reached too: a fault below the reported stack address.
C23_BelowBoundary ==
    /\ ev.op = "signal_handler"
    /\ target = "linux_gnu"
    /\ ev.t \in Spawned
    /\ \E b \in SpawnStackStarts, g \in GuardSizes \ {0} :
          /\ written[ev.t] = Some(AroundBoundary(b, g))
          /\ ev.addr = b - g
    /\ proc = "aborted"

\* The targets whose current_guard reads the guard size from the thread
\* attributes.
AttrGuardTargets == {"linux_gnu", "linux_musl", "freebsd"}

\* What current_guard is to answer for the stack address s and the guard
\* size 0: on musl the range of one page below s, a panic elsewhere.
ZeroGuardAnswer(r, s) ==
    IF target = "linux_musl" THEN r = Some(<<USub(s, PageSz), s>>)
    ELSE r = Panic

\* C24: where current_guard reads the guard size from the thread
\* attributes, a reported size of zero becomes one page size on Linux with
\* musl and a panic on every other target, so that no range the function
\* returns from a successful query has zero length.
C24_ZeroGuardSize ==
    (ev.op = "current_guard" /\ target \in AttrGuardTargets) =>
        /\ ev.args[2] = 0 => ZeroGuardAnswer(ev.ret[1], ev.args[1])
        /\ ev.args[4] = 0 => ZeroGuardAnswer(ev.ret[2], ev.args[3])
        /\ ev.args[2] # 0 => IsRange(ev.ret[1])
        /\ \A i \in 1 .. 2 : IsRange(ev.ret[i]) => ev.ret[i][1][1] # ev.ret[i][1][2]

\* C24 witness: on musl a reported guard size of zero gave the range of one
\* page below the stack address, while another thread reported a size.
C24_Witness ==
    /\ ev.op = "current_guard"
    /\ target = "linux_musl"
    /\ ev.args[2] = 0
    /\ ev.args[4] # 0
    /\ ev.ret[1] = Some(<<ev.args[1] - PageSz, ev.args[1]>>)
    /\ IsRange(ev.ret[2])

\* The other case is reached too: a panic for a guard size of zero outside
\* musl.
C24_PanicOutsideMusl ==
    /\ ev.op = "current_guard"
    /\ target = "freebsd"
    /\ ev.args[2] = 0
    /\ ev.ret[1] = Panic

\* The step is the part of make_handler from its sigaltstack query on, on
\* a thread whose alternate stack is enabled.
MakeHandlerOnEnabled ==
    /\ ev'.op \in {"init_altstack", "make_handler_altstack"}
    /\ pc[ev'.t] = ev'.op
    /\ sigalt[ev'.t].ss_flags = SS_ENABLED

\* The step is drop_handler of a null handle, in cleanup or at the end of
\* a thread.
DropOfNull ==
    /\ \/ ev'.op = "cleanup" /\ ~cleaned /\ cleaned'
       \/ ev'.op = "drop" /\ pc[ev'.t] = "running" /\ pc'[ev'.t] = "exited"
    /\ ev'.data = NULL

\* C25: make_handler on a thread whose alternate stack is enabled returns
\* the null handle, maps nothing and leaves every registration as it is;
\* drop_handler of a null handle calls neither sigaltstack nor munmap: the
\* alternate stack that was there stays registered and mapped.
C25_EnabledAltStackUntouched ==
    [][/\ MakeHandlerOnEnabled =>
             /\ handler'[ev'.t] = NULL
             /\ ev'.mmaps = 0
             /\ ev'.data = NULL
             /\ mem' = mem
             /\ sigalt' = sigalt
       /\ DropOfNull =>
             /\ ev'.unmap = None
             /\ mem' = mem
             /\ sigalt' = sigalt]_vars

\* C25 witness: init found an alternate stack of other code on the main
\* thread, with a handler of ours installed, and cleanup has dropped the
\* null handle: the stack is registered as before and nothing is mapped.
C25_Witness ==
    /\ ev.op = "cleanup"
    /\ ev.data = NULL
    /\ NEED_ALTSTACK
    /\ sigalt[Main] = ForeignAltStack
    /\ MappedBy(Main) = {}

\* The other case is reached too: a second init finds the alternate stack
\* of the first make_handler enabled and maps no second one.
C25_OwnStackStillLive ==
    /\ ev.op = "init_altstack"
    /\ ev.mmaps = 0
    /\ initCount >= 1
    /\ ArmedByUs(Main)
    /\ handler[Main] = NULL
    /\ MappedBy(Main) = RegionOf(sigalt[Main].ss_sp)

\* C26: on a thread whose GUARD is the empty range (0, 0), because the
\* guard resolution gave none or because the thread never wrote its GUARD,
\* signal_handler takes every fault, on SIGSEGV and on SIGBUS and at every
\* address, address 0 included, for none of a stack overflow: it does not
\* abort, and goes back to the default disposition.
C26_EmptyGuardNeverOverflow ==
    (ev.op = "signal_handler" /\ GUARD[ev.t] = <<0, 0>>) =>
        /\ ev.guard = <<0, 0>>
        /\ proc # "aborted"
        /\ pending[ev.t] = Some(ev.sig)
        /\ disp[ev.sig] = SIG_DFL

\* C26 witness: a thread that started before init, and so never wrote its
\* GUARD, faulted on SIGBUS at address 0 and the process was not aborted.
C26_Witness ==
    /\ ev.op = "signal_handler"
    /\ ev.t \in Spawned
    /\ written[ev.t] = None
    /\ GUARD[ev.t] = <<0, 0>>
    /\ ev.sig = SIGBUS
    /\ ev.addr = 0
    /\ proc = "running"

\* The other source of the empty range is reached too: the guard
\* resolution of the thread gave none, and (0, 0) was written.
C26_ResolvedToNone ==
    /\ ev.op = "signal_handler"
    /\ written[ev.t] = Some(<<0, 0>>)
    /\ ev.addr = 0
    /\ proc = "running"

====
